---- MODULE Spec2Model ----
(***************************************************************************)
(* A model of su_doku.sudoku.Sudoku: the grid, the constraint predicates,  *)
(* the randomized in-place backtracking search (solve_inplace), the        *)
(* copy-per-branch enumeration (solve_all, is_unique) and the generator    *)
(* (generate, generate_unique).                                            *)
(*                                                                         *)
(* A grid is a function  row -> (col -> value)  over 0 .. n-1, as the      *)
(* numpy matrix is indexed.  A cell is the pair <<row, col>>.              *)
(***************************************************************************)
EXTENDS Integers, Sequences, FiniteSets, TLC

VARIABLES
    n,              \* side length of the grid the operation runs on
    op,             \* the public operation that was called
    entry,          \* the caller's grid as it was when the operation was called
    self,           \* the cells of the caller's grid object
    copy,           \* the cells of the trusted copy has_solution makes (NoGrid: none)
    recv,           \* the object solve_inplace is bound to: "self" or "copy"
    stack,          \* the active solve_inplace invocations, outermost first
    ret,            \* the value the last solve_inplace invocation returned
    pc,             \* the position of the operation
    writes,         \* number of cell assignments solve_inplace has made
    calls,          \* number of times solve_inplace was called on the caller's grid
    solutions,      \* the set is_unique accumulates solutions in
    cell,           \* is_unique's empty_cell
    digit,          \* the next digit is_unique's candidate generator will test
    result,         \* what the operation returned
    k,              \* generate: number of cells to remove
    seed,           \* generate: the caller's grid argument (NoGrid: None)
    attempt_limit,  \* generate_unique: attempt_limit
    attempts,       \* generate_unique: attempts
    sudoku,         \* generate: the grid being produced
    removed,        \* generate: removal steps completed in the current call
    generated,      \* number of calls to generate made so far
    searches,       \* number of calls to solve_inplace made by generate so far
    checks,         \* number of calls to is_unique made by generate_unique so far
    err             \* the error the operation failed with ("" : none)

vars == <<n, op, entry, self, copy, recv, stack, ret, pc, writes, calls, solutions,
          cell, digit, result, k, seed, attempt_limit, attempts, sudoku,
          removed, generated, searches, checks, err>>

solveVars == <<self, copy, recv, stack, ret, writes, calls>>
enumVars  == <<solutions, cell, digit>>
genVars   == <<k, seed, attempt_limit, attempts, sudoku, removed, generated,
               searches, checks, err>>

----------------------------------------------------------------------------
(* Bounds of the model.                                                    *)

\* Side lengths checked: the perfect squares 1 and 4.
Sizes == {1, 4}

\* Input grids are the base grids below with at most MaxEmpty more cells emptied.
MaxEmpty == 2

\* solve_inplace is called at most MaxCalls times in a row on the same grid.
MaxCalls == 2

\* generate without a seed grid is asked to remove at most MaxK cells,
\* generate with a seed grid at most MaxSeedK cells.
MaxK == 2
MaxSeedK == 4

\* generate_unique is called with attempt_limit in 1 .. MaxAttemptLimit.
MaxAttemptLimit == 3

----------------------------------------------------------------------------
(* The grid.                                                               *)

NoCell == <<>>
NoGrid == <<>>

Idx(m) == 0 .. (m - 1)

Cells(m) == Idx(m) \X Idx(m)

\* obj.shape[0]
Side(g) == Cardinality(DOMAIN g)

\* Unsigned(np.sqrt(n)): the square root, truncated
sr(g) == CHOOSE s \in 0 .. Side(g) : s * s <= Side(g) /\ (s + 1) * (s + 1) > Side(g)

\* np.zeros((n, n))
empty(m) == [r \in Idx(m) |-> [c \in Idx(m) |-> 0]]

\* self[cell] = v
Put(g, rc, v) == [g EXCEPT ![rc[1]][rc[2]] = v]

\* The values of the box that contains (row, col)
box(g, row, col) ==
    LET s  == sr(g)
        r0 == (row \div s) * s
        c0 == (col \div s) * s
    IN  {g[r][c] : r \in r0 .. (r0 + s - 1), c \in c0 .. (c0 + s - 1)}

row_safe(g, row, d) == \A c \in DOMAIN g[row] : g[row][c] # d

col_safe(g, col, d) == \A r \in DOMAIN g : g[r][col] # d

box_safe(g, row, col, d) == d \notin box(g, row, col)

\* is_safe without the box check
is_safe_ignoring_box(g, row, col, d) ==
    row_safe(g, row, d) /\ col_safe(g, col, d)

is_safe(g, row, col, d) ==
    row_safe(g, row, d) /\ col_safe(g, col, d) /\ box_safe(g, row, col, d)

\* np.argwhere(self == 0), as a set; argwhere lists it in row-major order
empty_cells(g) == {rc \in Cells(Side(g)) : g[rc[1]][rc[2]] = 0}

RowMajorBefore(a, b) == a[1] < b[1] \/ (a[1] = b[1] /\ a[2] < b[2])

\* find_empty with the first cell, not None, as the default of next
find_empty_defaulting(g) ==
    IF empty_cells(g) = {} THEN <<0, 0>>
    ELSE CHOOSE a \in empty_cells(g) :
            \A b \in empty_cells(g) : a = b \/ RowMajorBefore(a, b)

\* next(self.empty_cells, None)
find_empty(g) ==
    IF empty_cells(g) = {} THEN NoCell
    ELSE CHOOSE a \in empty_cells(g) :
            \A b \in empty_cells(g) : a = b \/ RowMajorBefore(a, b)

\* candidates with np.arange(1, n): the digit n is never tried
candidates_below_n(g, row, col) ==
    SelectSeq([i \in 1 .. (Side(g) - 1) |-> i], LAMBDA d : is_safe(g, row, col, d))

\* The digits the generator of candidates(row, col) yields, in its order
candidates(g, row, col) ==
    SelectSeq([i \in 1 .. Side(g) |-> i], LAMBDA d : is_safe(g, row, col, d))

\* The generator of candidates(row, col), resumed at digit `from`: the next
\* digit it yields, or Side(g) + 1 when it is exhausted
NextCandidate(g, row, col, from) ==
    IF \E d \in from .. Side(g) : is_safe(g, row, col, d)
    THEN CHOOSE d \in from .. Side(g) :
            /\ is_safe(g, row, col, d)
            /\ \A d2 \in from .. (d - 1) : ~is_safe(g, row, col, d2)
    ELSE Side(g) + 1

Range(s) == {s[i] : i \in DOMAIN s}

\* Every order np.random.shuffle may leave the array in
Shuffles(s) == {p \in [DOMAIN s -> Range(s)] : Range(p) = Range(s)}

random_candidates(g, row, col) == Shuffles(candidates(g, row, col))

\* A constructor that wraps the caller's buffer instead of copying it
SharedBuffer(g) == [obj |-> "self", cells |-> g]

\* Sudoku(self, _verify=False): a new object holding a copy of the cells
TrustedCopy(g) == [obj |-> "copy", cells |-> g]

----------------------------------------------------------------------------
(* Enumeration: _solve_all_helper, solve_all, is_unique.                   *)
(* The set `solutions` the code passes down and adds to is modelled by     *)
(* what a call adds to it: solve_all_helper(g) is the receiver's cells     *)
(* after the call (so that a write through a branch is visible) and the    *)
(* grids the call has added.                                               *)

\* (copy := Sudoku(self, _verify=False))[empty_cell] = candidate
Branch(g, rc, d) ==
    LET o == TrustedCopy(g)
    IN  [self |-> IF o.obj = "copy" THEN g ELSE Put(g, rc, d),
         copy |-> Put(o.cells, rc, d)]

RECURSIVE solve_all_helper(_)
RECURSIVE SolveAllLoop(_, _, _)

\* for candidate in self.candidates(*empty_cell): ... , from digit d on
SolveAllLoop(g, rc, d) ==
    IF d > Side(g) THEN [self |-> g, added |-> {}]
    ELSE IF is_safe(g, rc[1], rc[2], d)
         THEN LET b    == Branch(g, rc, d)
                  sub  == solve_all_helper(b.copy)
                  rest == SolveAllLoop(b.self, rc, d + 1)
              IN  [self |-> rest.self, added |-> sub.added \cup rest.added]
         ELSE SolveAllLoop(g, rc, d + 1)

solve_all_helper(g) ==
    IF find_empty(g) = NoCell
    THEN [self |-> g, added |-> {g}]
    ELSE SolveAllLoop(g, find_empty(g), 1)

\* s = set(); self._solve_all_helper(s); return frozenset(s)
solve_all(g) == {} \cup solve_all_helper(g).added

RECURSIVE IsUniqueLoop(_, _, _, _)

\* The loop of _is_unique_helper, from digit d on, with sols recorded so far
IsUniqueLoop(g, rc, d, sols) ==
    IF d > Side(g) THEN TRUE
    ELSE IF is_safe(g, rc[1], rc[2], d)
         THEN LET b == Branch(g, rc, d)
                  r == sols \cup solve_all_helper(b.copy).added
              IN  IF Cardinality(r) > 1 THEN FALSE
                  ELSE IsUniqueLoop(b.self, rc, d + 1, r)
         ELSE IsUniqueLoop(g, rc, d + 1, sols)

\* self._is_unique_helper(set())
is_unique(g) ==
    IF find_empty(g) = NoCell
    THEN Cardinality({} \cup {g}) = 1
    ELSE IsUniqueLoop(g, find_empty(g), 1, {})

----------------------------------------------------------------------------
(* Input grids.                                                            *)

Grid(rows) ==
    [r \in Idx(Len(rows)) |-> [c \in Idx(Len(rows)) |-> rows[r + 1][c + 1]]]

\* A complete valid grid
Solved4 == Grid(<< <<1, 2, 3, 4>>, <<3, 4, 1, 2>>, <<2, 1, 4, 3>>, <<4, 3, 2, 1>> >>)
\* Solved4 less an interchangeable rectangle inside one band: two completions
Rect4   == Grid(<< <<0, 2, 0, 4>>, <<0, 4, 0, 2>>, <<2, 1, 4, 3>>, <<4, 3, 2, 1>> >>)
\* Solved4 less its four corners, which only the box constraint tells apart
Corner4 == Grid(<< <<0, 2, 3, 0>>, <<3, 4, 1, 2>>, <<2, 1, 4, 3>>, <<0, 3, 2, 0>> >>)
\* Consistent filled cells, but no digit fits (0, 0): no completion
Stuck4  == Grid(<< <<0, 2, 3, 4>>, <<3, 4, 1, 2>>, <<1, 0, 4, 3>>, <<4, 3, 2, 1>> >>)
\* Complete and in range, but the last row repeats 2
Dup4    == Grid(<< <<1, 2, 3, 4>>, <<3, 4, 1, 2>>, <<2, 1, 4, 3>>, <<4, 3, 2, 2>> >>)
\* Complete and in range, every cell 1
Ones4   == Grid(<< <<1, 1, 1, 1>>, <<1, 1, 1, 1>>, <<1, 1, 1, 1>>, <<1, 1, 1, 1>> >>)
\* Solved4 less eight cells: three completions, all with 1 at (0, 0), where
\* 4 is safe as well
Wide4   == Grid(<< <<0, 0, 3, 0>>, <<0, 0, 1, 0>>, <<2, 1, 4, 3>>, <<0, 0, 2, 1>> >>)
Solved1 == Grid(<< <<1>> >>)

Bases(m) == IF m = 1 THEN {Solved1} ELSE {Solved4, Rect4, Corner4, Stuck4, Dup4}

Blank(g, S) ==
    [r \in DOMAIN g |-> [c \in DOMAIN g |-> IF <<r, c>> \in S THEN 0 ELSE g[r][c]]]

Inputs(m) ==
    {Blank(b, S) : b \in Bases(m),
                   S \in {T \in SUBSET Cells(m) : Cardinality(T) <= MaxEmpty}}
        \cup (IF m = 1 THEN {} ELSE {Wide4})

----------------------------------------------------------------------------
(* solve_inplace, one step per statement executed by an invocation.        *)
(* A frame is one active invocation: "find" before find_empty, "loop" at   *)
(* the head of the for loop, "wait" while its recursive call runs.         *)

Frame(p, rc, cands) == [pc |-> p, cell |-> rc, cands |-> cands]

Top == stack[Len(stack)]
Pop == SubSeq(stack, 1, Len(stack) - 1)
SetTop(f) == [stack EXCEPT ![Len(stack)] = f]

\* The cells of the object solve_inplace is bound to
Receiver == IF recv = "self" THEN self ELSE copy

\* self[empty_cell] = v, on the object solve_inplace is bound to
Assign(rc, v) ==
    /\ self' = IF recv = "self" THEN Put(self, rc, v) ELSE self
    /\ copy' = IF recv = "copy" THEN Put(copy, rc, v) ELSE copy
    /\ writes' = writes + 1

\* if (empty_cell := self.find_empty()) is None: return self
\* otherwise materialize and shuffle the candidates
SolveFindEmpty ==
    /\ pc = "solve" /\ stack # <<>> /\ Top.pc = "find"
    /\ IF find_empty(Receiver) = NoCell
       THEN /\ stack' = Pop
            /\ ret' = "Some"
       ELSE /\ \E p \in random_candidates(Receiver, find_empty(Receiver)[1],
                                          find_empty(Receiver)[2]) :
                 stack' = SetTop(Frame("loop", find_empty(Receiver), p))
            /\ ret' = ret
    /\ UNCHANGED <<n, op, entry, self, copy, recv, pc, writes, calls, result>>
    /\ UNCHANGED <<enumVars, genVars>>

\* SolvePlace recursing without having placed the candidate
SolvePlaceWithoutWrite ==
    /\ pc = "solve" /\ stack # <<>> /\ Top.pc = "loop" /\ Top.cands # <<>>
    /\ stack' = Append(SetTop(Frame("wait", Top.cell, Tail(Top.cands))),
                       Frame("find", NoCell, <<>>))
    /\ UNCHANGED <<n, op, entry, self, copy, recv, ret, pc, writes, calls, result>>
    /\ UNCHANGED <<enumVars, genVars>>

\* self[empty_cell] = candidate; self.solve_inplace()
SolvePlace ==
    /\ pc = "solve" /\ stack # <<>> /\ Top.pc = "loop" /\ Top.cands # <<>>
    /\ Assign(Top.cell, Head(Top.cands))
    /\ stack' = Append(SetTop(Frame("wait", Top.cell, Tail(Top.cands))),
                       Frame("find", NoCell, <<>>))
    /\ UNCHANGED <<n, op, entry, recv, ret, pc, calls, result>>
    /\ UNCHANGED <<enumVars, genVars>>

\* SolveResume returning None as soon as one candidate has failed
SolveResumeGivingUp ==
    /\ pc = "solve" /\ stack # <<>> /\ Top.pc = "wait" /\ ret # "pending"
    /\ stack' = Pop
    /\ ret' = ret
    /\ UNCHANGED <<n, op, entry, self, copy, recv, pc, writes, calls, result>>
    /\ UNCHANGED <<enumVars, genVars>>

\* if (solution := ...) is not None: return solution; else the next candidate
SolveResume ==
    /\ pc = "solve" /\ stack # <<>> /\ Top.pc = "wait" /\ ret # "pending"
    /\ IF ret = "Some"
       THEN stack' = Pop /\ ret' = ret
       ELSE stack' = SetTop(Frame("loop", Top.cell, Top.cands)) /\ ret' = "pending"
    /\ UNCHANGED <<n, op, entry, self, copy, recv, pc, writes, calls, result>>
    /\ UNCHANGED <<enumVars, genVars>>

\* SolveBacktrack without the reset of the cell
SolveBacktrackKeeping ==
    /\ pc = "solve" /\ stack # <<>> /\ Top.pc = "loop" /\ Top.cands = <<>>
    /\ stack' = Pop
    /\ ret' = "None"
    /\ UNCHANGED <<n, op, entry, self, copy, recv, pc, writes, calls, result>>
    /\ UNCHANGED <<enumVars, genVars>>

\* self[empty_cell] = 0; return None
SolveBacktrack ==
    /\ pc = "solve" /\ stack # <<>> /\ Top.pc = "loop" /\ Top.cands = <<>>
    /\ Assign(Top.cell, 0)
    /\ stack' = Pop
    /\ ret' = "None"
    /\ UNCHANGED <<n, op, entry, recv, pc, calls, result>>
    /\ UNCHANGED <<enumVars, genVars>>

\* The outermost invocation has returned to the caller of the operation
SolveFinish ==
    /\ pc = "solve" /\ stack = <<>>
    /\ result' = IF op = "has_solution" THEN (ret # "None") ELSE ret
    /\ pc' = "done"
    /\ UNCHANGED <<n, op, entry, self, copy, recv, stack, ret, writes, calls>>
    /\ UNCHANGED <<enumVars, genVars>>

\* grid.solve_inplace()
SolveInplaceCall ==
    /\ pc = "call" /\ op = "solve_inplace"
    /\ recv' = "self"
    /\ stack' = <<Frame("find", NoCell, <<>>)>>
    /\ calls' = calls + 1
    /\ pc' = "solve"
    /\ UNCHANGED <<n, op, entry, self, copy, ret, writes, result>>
    /\ UNCHANGED <<enumVars, genVars>>

\* solve_inplace again on the grid a successful solve_inplace returned
SolveInplaceAgain ==
    /\ pc = "done" /\ op = "solve_inplace" /\ ret = "Some" /\ calls < MaxCalls
    /\ calls' = calls + 1
    /\ entry' = self
    /\ recv' = "self"
    /\ stack' = <<Frame("find", NoCell, <<>>)>>
    /\ ret' = "pending"
    /\ writes' = 0
    /\ result' = "none"
    /\ pc' = "solve"
    /\ UNCHANGED <<n, op, self, copy>>
    /\ UNCHANGED <<enumVars, genVars>>

\* Sudoku(self, _verify=False).solve_inplace() is not None
HasSolutionCall ==
    /\ pc = "call" /\ op = "has_solution"
    /\ recv' = TrustedCopy(self).obj
    /\ copy' = IF TrustedCopy(self).obj = "copy" THEN TrustedCopy(self).cells ELSE copy
    /\ stack' = <<Frame("find", NoCell, <<>>)>>
    /\ pc' = "solve"
    /\ UNCHANGED <<n, op, entry, self, ret, writes, calls, result>>
    /\ UNCHANGED <<enumVars, genVars>>

----------------------------------------------------------------------------
(* solve_all in one step; is_unique one step per top-level candidate.      *)

\* s = set(); self._solve_all_helper(s); return frozenset(s)
SolveAllCall ==
    /\ pc = "call" /\ op = "solve_all"
    /\ self' = solve_all_helper(self).self
    /\ result' = {} \cup solve_all_helper(self).added
    /\ pc' = "done"
    /\ UNCHANGED <<n, op, entry, copy, recv, stack, ret, writes, calls>>
    /\ UNCHANGED <<enumVars, genVars>>

\* self._is_unique_helper(set()), up to the head of its loop
IsUniqueCall ==
    /\ pc = "call" /\ op = "is_unique"
    /\ IF find_empty(self) = NoCell
       THEN /\ solutions' = {} \cup {self}
            /\ result' = (Cardinality({} \cup {self}) = 1)
            /\ pc' = "done"
            /\ UNCHANGED <<cell, digit>>
       ELSE /\ solutions' = {}
            /\ cell' = find_empty(self)
            /\ digit' = 1
            /\ pc' = "unique_loop"
            /\ UNCHANGED result
    /\ UNCHANGED <<n, op, entry, solveVars, genVars>>

\* IsUniqueBranch leaving the subtree as soon as a second solution is recorded
IsUniqueBranchLeavingEarly ==
    /\ pc = "unique_loop"
    /\ NextCandidate(self, cell[1], cell[2], digit) <= n
    /\ LET d == NextCandidate(self, cell[1], cell[2], digit)
           b == Branch(self, cell, d)
           r == solutions \cup solve_all_helper(b.copy).added
       IN  /\ self' = b.self
           /\ digit' = d + 1
           /\ IF Cardinality(r) > 1
              THEN /\ \E T \in SUBSET r :
                        /\ Cardinality(T) = 2 /\ solutions \subseteq T
                        /\ solutions' = T
                   /\ result' = FALSE /\ pc' = "done"
              ELSE solutions' = r /\ UNCHANGED <<result, pc>>
    /\ UNCHANGED <<n, op, entry, copy, recv, stack, ret, writes, calls, cell, genVars>>

\* One top-level candidate: copy, place, enumerate its subtree, then test
\* len(solutions) > 1
IsUniqueBranch ==
    /\ pc = "unique_loop"
    /\ NextCandidate(self, cell[1], cell[2], digit) <= n
    /\ LET d == NextCandidate(self, cell[1], cell[2], digit)
           b == Branch(self, cell, d)
           r == solutions \cup solve_all_helper(b.copy).added
       IN  /\ self' = b.self
           /\ solutions' = r
           /\ digit' = d + 1
           /\ IF Cardinality(r) > 1
              THEN result' = FALSE /\ pc' = "done"
              ELSE UNCHANGED <<result, pc>>
    /\ UNCHANGED <<n, op, entry, copy, recv, stack, ret, writes, calls, cell, genVars>>

\* The candidates are exhausted: return True
IsUniqueExhausted ==
    /\ pc = "unique_loop"
    /\ NextCandidate(self, cell[1], cell[2], digit) > n
    /\ result' = TRUE
    /\ pc' = "done"
    /\ UNCHANGED <<n, op, entry, solveVars, enumVars, genVars>>

----------------------------------------------------------------------------
(* The specification of the solver operations on the input grids.          *)

IdleGen ==
    /\ k = 0 /\ seed = NoGrid /\ attempt_limit = 0 /\ attempts = 0
    /\ sudoku = NoGrid /\ removed = 0 /\ generated = 0 /\ searches = 0
    /\ checks = 0 /\ err = ""

IdleSolver ==
    /\ copy = NoGrid /\ recv = "self" /\ stack = <<>> /\ ret = "pending"
    /\ writes = 0 /\ calls = 0 /\ solutions = {} /\ cell = NoCell /\ digit = 0
    /\ result = "none"

Init ==
    /\ n \in Sizes
    /\ op \in {"solve_inplace", "has_solution", "solve_all", "is_unique"}
    /\ self \in Inputs(n)
    /\ entry = self
    /\ pc = "call"
    /\ IdleSolver
    /\ IdleGen

Next ==
    \/ SolveInplaceCall
    \/ SolveInplaceAgain
    \/ HasSolutionCall
    \/ SolveFindEmpty
    \/ SolvePlace
    \/ SolveResume
    \/ SolveBacktrack
    \/ SolveFinish
    \/ SolveAllCall
    \/ IsUniqueCall
    \/ IsUniqueBranch
    \/ IsUniqueExhausted

Spec == Init /\ [][Next]_vars

----------------------------------------------------------------------------
(* The specification of Sudoku.empty(n).solve_inplace().                   *)

InitEmpty ==
    /\ n \in Sizes
    /\ op = "solve_inplace"
    /\ self = empty(n)
    /\ entry = self
    /\ pc = "call"
    /\ IdleSolver
    /\ IdleGen

NextEmpty ==
    \/ SolveInplaceCall
    \/ SolveFindEmpty
    \/ SolvePlace
    \/ SolveResume
    \/ SolveBacktrack
    \/ SolveFinish

SpecEmpty == InitEmpty /\ [][NextEmpty]_vars

----------------------------------------------------------------------------
(* generate and generate_unique.                                           *)

\* The width of the grid's cell type, numpy.uint8
UnsignedBits == 8

\* The conversion of an integer to Unsigned
Unsigned(v) == v % (2 ^ UnsignedBits)

\* np.array(grid, dtype=Unsigned, copy=True)
Construct(data) == [r \in DOMAIN data |-> [c \in DOMAIN data[r] |-> Unsigned(data[r][c])]]

\* assert np.logical_and(0 <= obj, obj <= n).all(), on grids that are square
\* with a perfect-square side
VerifyError(obj) ==
    IF \A r \in DOMAIN obj, c \in DOMAIN obj : 0 <= obj[r][c] /\ obj[r][c] <= Side(obj)
    THEN "" ELSE "ValueOutOfRange"

\* What solve_inplace may return on g and leave g as, over all shuffle
\* orders: any leaf of the search tree, or None with the grid restored
solve_inplace_outcomes(g) ==
    IF solve_all(g) = {} THEN {[ret |-> "None", grid |-> g]}
    ELSE {[ret |-> "Some", grid |-> h] : h \in solve_all(g)}

\* A constructor that views the caller's matrix instead of copying it
SeedView(data) == [obj |-> "seed", cells |-> Construct(data)]

\* cls(grid): np.array(grid, dtype=Unsigned, copy=True), a new object that
\* owns its cells
SeedObject(data) == [obj |-> "copy", cells |-> Construct(data)]

\* The grid generate starts from: cls.empty(n), or cls(grid)
GenerateStart(m, sd) == IF sd = NoGrid THEN empty(m) ELSE Construct(sd)

\* generate with the check of k left out
GenerateErrorWithoutK(m, kk, sd) ==
    IF sd # NoGrid /\ VerifyError(GenerateStart(m, sd)) # ""
    THEN VerifyError(GenerateStart(m, sd))
    ELSE IF sd # NoGrid /\ find_empty(GenerateStart(m, sd)) # NoCell
    THEN "IncompleteSeedGrid"
    ELSE ""

\* The error generate fails with before it searches ("" : none), in the
\* order of its checks: the constructor's assertions, ValueError("Grid is not
\* a complete Sudoku puzzle"), assert 0 <= k <= n**2
GenerateError(m, kk, sd) ==
    IF sd # NoGrid /\ VerifyError(GenerateStart(m, sd)) # ""
    THEN VerifyError(GenerateStart(m, sd))
    ELSE IF sd # NoGrid /\ find_empty(GenerateStart(m, sd)) # NoCell
    THEN "IncompleteSeedGrid"
    ELSE IF ~(0 <= kk /\ kk <= m * m)
    THEN "InvalidRemovalCount"
    ELSE ""

\* The rejection test with its condition always true
AlwaysOccupied(g, row, col) == TRUE

\* The rejection test inverted: break on an empty cell
Vacant(g, row, col) == g[row][col] = 0

\* if sudoku[row, col] != 0: break
Occupied(g, row, col) == g[row][col] # 0

\* if attempts >= attempt_limit: raise RuntimeError(...)
LimitReached(a, limit) == a >= limit

\* while True: attempts += 1; if attempts >= attempt_limit: raise ...
GenerateUniqueAttempt ==
    /\ pc = "call" /\ op = "generate_unique"
    /\ attempts' = attempts + 1
    /\ IF LimitReached(attempts + 1, attempt_limit)
       THEN err' = "GenerationExhausted" /\ pc' = "error"
       ELSE err' = err /\ pc' = "generate"
    /\ UNCHANGED <<n, op, entry, solveVars, enumVars, result>>
    /\ UNCHANGED <<k, seed, attempt_limit, sudoku, removed, generated, searches, checks>>

\* generate, up to the removal loop: build the grid, check it and k, search
GenerateEnter ==
    /\ \/ pc = "call" /\ op = "generate"
       \/ pc = "generate"
    /\ generated' = generated + 1
    /\ IF GenerateError(n, k, seed) # ""
       THEN /\ err' = GenerateError(n, k, seed)
            /\ pc' = "error"
            /\ UNCHANGED <<sudoku, searches, removed>>
       ELSE /\ \E o \in solve_inplace_outcomes(GenerateStart(n, seed)) :
                 sudoku' = o.grid
            /\ searches' = searches + 1
            /\ removed' = 0
            /\ pc' = "remove"
            /\ err' = err
    /\ UNCHANGED <<n, op, entry, solveVars, enumVars, result>>
    /\ UNCHANGED <<k, seed, attempt_limit, attempts, checks>>

\* row, col = np.random.randint(0, n, size=2) lands on an empty cell: resample
RemoveReject ==
    /\ pc = "remove" /\ removed < k
    /\ \E row \in Idx(n), col \in Idx(n) : ~Occupied(sudoku, row, col)
    /\ UNCHANGED vars

\* row, col lands on a filled cell: break; sudoku[row, col] = 0
RemoveCell ==
    /\ pc = "remove" /\ removed < k
    /\ \E row \in Idx(n), col \in Idx(n) :
          /\ Occupied(sudoku, row, col)
          /\ sudoku' = Put(sudoku, <<row, col>>, 0)
          /\ seed' = IF seed # NoGrid /\ SeedObject(seed).obj = "seed"
                     THEN Put(seed, <<row, col>>, 0)
                     ELSE seed
    /\ removed' = removed + 1
    /\ UNCHANGED <<n, op, entry, solveVars, enumVars, result, pc>>
    /\ UNCHANGED <<k, attempt_limit, attempts, generated, searches, checks, err>>

\* return sudoku, from generate
GenerateReturn ==
    /\ pc = "remove" /\ removed = k
    /\ IF op = "generate"
       THEN result' = sudoku /\ pc' = "done"
       ELSE result' = result /\ pc' = "check"
    /\ UNCHANGED <<n, op, entry, solveVars, enumVars, genVars>>

\* if k == 0: return sudoku
GenerateUniqueSkipCheck ==
    /\ pc = "check" /\ k = 0
    /\ result' = sudoku
    /\ pc' = "done"
    /\ UNCHANGED <<n, op, entry, solveVars, enumVars, genVars>>

\* if sudoku.is_unique(): return sudoku
GenerateUniqueAccept ==
    /\ pc = "check" /\ k # 0
    /\ is_unique(sudoku)
    /\ checks' = checks + 1
    /\ result' = sudoku
    /\ pc' = "done"
    /\ UNCHANGED <<n, op, entry, solveVars, enumVars>>
    /\ UNCHANGED <<k, seed, attempt_limit, attempts, sudoku, removed, generated, searches, err>>

\* else: "Not unique, trying again..."
GenerateUniqueRetry ==
    /\ pc = "check" /\ k # 0
    /\ ~is_unique(sudoku)
    /\ checks' = checks + 1
    /\ pc' = "call"
    /\ UNCHANGED <<n, op, entry, solveVars, enumVars, result>>
    /\ UNCHANGED <<k, seed, attempt_limit, attempts, sudoku, removed, generated, searches, err>>

\* The seed grids callers pass: complete ones (valid or not) and incomplete ones
Seeds(m) == IF m = 1 THEN {Solved1, empty(1)} ELSE {Solved4, Dup4, Ones4, Rect4}

InitGen ==
    /\ n \in Sizes
    /\ op \in {"generate", "generate_unique"}
    /\ seed \in {NoGrid} \cup Seeds(n)
    /\ k \in (-1 .. (IF seed = NoGrid THEN MaxK ELSE MaxSeedK)) \cup {n * n + 1}
    /\ attempt_limit \in IF op = "generate_unique" THEN 1 .. MaxAttemptLimit ELSE {0}
    /\ attempts = 0 /\ sudoku = NoGrid /\ removed = 0 /\ generated = 0
    /\ searches = 0 /\ checks = 0 /\ err = ""
    /\ self = NoGrid /\ entry = seed
    /\ pc = "call"
    /\ IdleSolver

NextGen ==
    \/ GenerateUniqueAttempt
    \/ GenerateEnter
    \/ RemoveReject
    \/ RemoveCell
    \/ GenerateReturn
    \/ GenerateUniqueSkipCheck
    \/ GenerateUniqueAccept
    \/ GenerateUniqueRetry

SpecGen == InitGen /\ [][NextGen]_vars

----------------------------------------------------------------------------
(* generate alone, with the scheduling the code has from its removal loop  *)
(* on: the single thread always takes its next step, and the sampling of   *)
(* (row, col) is fair, so a filled cell, which every draw hits with        *)
(* positive probability, is eventually drawn.  A rejected draw changes     *)
(* nothing, so the removal of a filled cell stays enabled until it is      *)
(* taken.                                                                  *)

InitGenerate == InitGen /\ op = "generate"

NextGenerate ==
    \/ GenerateEnter
    \/ RemoveReject
    \/ RemoveCell
    \/ GenerateReturn

SpecGenerate ==
    /\ InitGenerate
    /\ [][NextGenerate]_vars
    /\ WF_vars(RemoveCell)
    /\ WF_vars(GenerateReturn)

----------------------------------------------------------------------------
(* Construction with validation: Sudoku(data).                             *)

\* The integers callers put in a cell: in range, just out of range, and out
\* of the range of the cell type on either side
RawValues(m) == {-255, -1, 0, 1, m, m + 1, 255, 256, 257, 256 + m + 1}

RawBase(m) == IF m = 1 THEN Solved1 ELSE Solved4

\* The data callers construct a grid from: a valid grid with one cell replaced
RawInputs(m) == {Put(RawBase(m), rc, v) : rc \in Cells(m), v \in RawValues(m)}

\* Does every cell of data fit the cell type?
FitsUnsigned(data) ==
    \A r \in DOMAIN data, c \in DOMAIN data : data[r][c] = Unsigned(data[r][c])

\* What np.array(grid, dtype=Unsigned, copy=True) may do: cast each cell
\* modulo 2^8 (an integer matrix, under every numpy; a sequence of Python
\* ints, under numpy 1), or raise OverflowError on a Python int that does
\* not fit (numpy 2)
ConstructOutcomes(data) ==
    {[err |-> "", obj |-> Construct(data)]}
        \cup (IF FitsUnsigned(data) THEN {}
              ELSE {[err |-> "OverflowError", obj |-> NoGrid]})

\* obj = np.array(grid, dtype=Unsigned, copy=True).view(cls)
NewConvert ==
    /\ pc = "call" /\ op = "Sudoku"
    /\ \E o \in ConstructOutcomes(self) :
          /\ copy' = o.obj
          /\ err' = o.err
          /\ pc' = IF o.err = "" THEN "verify" ELSE "error"
    /\ UNCHANGED <<n, op, entry, self, recv, stack, ret, writes, calls, result>>
    /\ UNCHANGED <<enumVars>>
    /\ UNCHANGED <<k, seed, attempt_limit, attempts, sudoku, removed, generated,
                   searches, checks>>

\* if _verify: assert ...; return obj
NewVerify ==
    /\ pc = "verify"
    /\ err' = VerifyError(copy)
    /\ IF VerifyError(copy) = ""
       THEN result' = copy /\ pc' = "done"
       ELSE result' = result /\ pc' = "error"
    /\ UNCHANGED <<n, op, entry, solveVars, enumVars>>
    /\ UNCHANGED <<k, seed, attempt_limit, attempts, sudoku, removed, generated,
                   searches, checks>>

InitNew ==
    /\ n \in Sizes
    /\ op = "Sudoku"
    /\ self \in RawInputs(n)
    /\ entry = self
    /\ pc = "call"
    /\ IdleSolver
    /\ IdleGen

NextNew ==
    \/ NewConvert
    \/ NewVerify

SpecNew == InitNew /\ [][NextNew]_vars

----------------------------------------------------------------------------
(* What the claims speak of.                                               *)

Complete(g) == empty_cells(g) = {}

\* The cell at position p (row-major) of box i (row-major), boxes of side s
BoxCell(s, i, p) ==
    <<(i \div s) * s + (p \div s), (i % s) * s + (p % s)>>

At(g, rc) == g[rc[1]][rc[2]]

\* No digit is repeated among the filled cells of any row, column or box
Consistent(g) ==
    LET m == Idx(Side(g))
        s == sr(g)
    IN  \A i \in m, p \in m, q \in m :
            p < q =>
                /\ g[i][p] # 0 => g[i][p] # g[i][q]
                /\ g[p][i] # 0 => g[p][i] # g[q][i]
                /\ At(g, BoxCell(s, i, p)) # 0
                        => At(g, BoxCell(s, i, p)) # At(g, BoxCell(s, i, q))

\* g with its empty cells filled as f says
Fill(g, f) ==
    [r \in DOMAIN g |->
        [c \in DOMAIN g |-> IF g[r][c] = 0 THEN f[<<r, c>>] ELSE g[r][c]]]

\* Every complete grid that agrees with g on its filled cells and repeats no
\* digit in a row, a column or a box
Completions(g) ==
    {h \in {Fill(g, f) : f \in [empty_cells(g) -> 1 .. Side(g)]} : Consistent(h)}

\* Every row, every column and every box holds each digit 1 .. n exactly once
EachDigitOnce(g) ==
    LET m == Idx(Side(g))
        s == sr(g)
    IN  \A d \in 1 .. Side(g), i \in m :
            /\ Cardinality({c \in m : g[i][c] = d}) = 1
            /\ Cardinality({r \in m : g[r][i] = d}) = 1
            /\ Cardinality({p \in m : At(g, BoxCell(s, i, p)) = d}) = 1

Succeeded == ret = "Some"

----------------------------------------------------------------------------
(* Claims about the solver operations, under Spec.                         *)

\* C1: is_unique(grid) returns true if and only if solve_all(grid) has
\* exactly one member.
C1_IsUniqueIffOneSolution ==
    (pc = "done" /\ op = "is_unique")
        => (result <=> (Cardinality(solve_all(entry)) = 1))

\* C4: for a grid whose filled cells are mutually consistent, solve_all
\* returns exactly the set of complete grids that agree with the input on its
\* filled cells and repeat no digit in a row, column or box (the empty set
\* when there is none); with one empty cell that has one safe candidate it is
\* the singleton of the input with that cell filled.
C4_SolveAllIsTheCompletions ==
    (pc = "done" /\ op = "solve_all" /\ Consistent(entry))
        => /\ result = Completions(entry)
           /\ \A rc \in Cells(n) :
                (empty_cells(entry) = {rc}
                    /\ Len(candidates(entry, rc[1], rc[2])) = 1)
                => result = {Put(entry, rc, candidates(entry, rc[1], rc[2])[1])}

\* C4 witness: solve_all has returned on a consistent grid with a single
\* empty cell that has a single safe candidate.
C4_Witness ==
    /\ pc = "done" /\ op = "solve_all" /\ Consistent(entry)
    /\ Cardinality(empty_cells(entry)) = 1
    /\ Cardinality(result) = 1

\* C5: under every shuffle order solve_inplace and has_solution report
\* success if and only if solve_all of the grid they were called on is
\* non-empty (for consistent grids: if and only if a completion exists), and
\* an invocation at any level reports failure only when the grid it was
\* entered with has no solution below it.
C5_SearchIsComplete ==
    /\ (pc = "done" /\ op \in {"solve_inplace", "has_solution"})
        => /\ Succeeded <=> (solve_all(entry) # {})
           /\ Consistent(entry) => (Succeeded <=> (Completions(entry) # {}))
           /\ op = "has_solution" => (result <=> Succeeded)
    /\ (pc = "solve" /\ ret = "None") => solve_all(Receiver) = {}

\* C5 witness: the search succeeded although it wrote more often than there
\* were empty cells, so some candidate it tried first had failed.
C5_Witness ==
    /\ pc = "done" /\ op = "has_solution" /\ result = TRUE
    /\ writes > Cardinality(empty_cells(entry))

\* C9: has_solution, solve_all and is_unique never change a cell of the grid
\* they are called on.
C9_QueriesLeaveGridUntouched ==
    op \in {"has_solution", "solve_all", "is_unique"} => self = entry

\* C9 witness: has_solution has returned after its search wrote cells.
C9_Witness ==
    pc = "done" /\ op = "has_solution" /\ writes > 0

\* C10: solve_inplace on a grid with no empty cell succeeds with zero cell
\* writes and leaves the grid as it was, also when that grid is the result of
\* a successful solve_inplace.
C10_SolveCompleteIsIdentity ==
    (pc = "done" /\ op = "solve_inplace" /\ Complete(entry))
        => (Succeeded /\ writes = 0 /\ self = entry)

\* C10 witness: solve_inplace has returned from a second call, made on the
\* result of a first call that had cells to fill.
C10_Witness ==
    /\ pc = "done" /\ op = "solve_inplace" /\ calls = 2
    /\ Complete(entry) /\ Succeeded

----------------------------------------------------------------------------
(* The step-by-step operations agree with the operators the generator uses;*)
(* checked under Spec and SpecEmpty.                                       *)

\* Whatever the steps of solve_inplace end in is one of solve_inplace_outcomes
StepsAgreeWithSolveOutcomes ==
    (pc = "done" /\ op = "solve_inplace")
        => [ret |-> ret, grid |-> self] \in solve_inplace_outcomes(entry)

\* The steps of is_unique return what the operator is_unique gives
StepsAgreeWithIsUnique ==
    (pc = "done" /\ op = "is_unique") => (result <=> is_unique(entry))

----------------------------------------------------------------------------
(* Claims about solving the empty grid, under SpecEmpty.                   *)

\* C7: for n in Sizes, solve_inplace on the empty n x n grid succeeds under
\* every shuffle order, and every row, column and box of the grid it leaves
\* holds each digit 1 .. n exactly once.
C7_EmptyGridIsSolved ==
    pc = "done" => (Succeeded /\ result = "Some" /\ EachDigitOnce(self))

\* C7 witness: the 4 x 4 search has returned after backtracking at least once.
C7_Witness ==
    pc = "done" /\ n = 4 /\ Succeeded /\ writes > n * n

----------------------------------------------------------------------------
(* Claims about the generator, under SpecGen.                              *)

\* C2: generate_unique with k > 0 fails with GenerationExhausted only after
\* attempt_limit attempts have each been generated and found not unique.
C2_ExhaustedAfterLimitAttempts ==
    (op = "generate_unique" /\ k > 0 /\ err = "GenerationExhausted")
        => (generated = attempt_limit /\ checks = attempt_limit)

\* C3: every puzzle generate_unique returns for k > 0 has exactly one
\* completion: one complete grid that agrees with its filled cells and
\* repeats no digit in a row, column or box.
C3_ReturnedPuzzleHasOneCompletion ==
    (pc = "done" /\ op = "generate_unique" /\ k > 0)
        => Cardinality(Completions(result)) = 1

\* C6: generate(n, k) with 0 <= k <= n*n returns a grid with exactly k empty
\* cells and n*n - k filled cells, and (called without a seed grid) the
\* filled cells are digits of 1 .. n that repeat in no row, column or box.
C6_GenerateRemovesExactlyK ==
    (pc = "done" /\ op = "generate")
        => /\ 0 <= k /\ k <= n * n
           /\ Cardinality(empty_cells(result)) = k
           /\ Cardinality(Cells(n) \ empty_cells(result)) = n * n - k
           /\ seed = NoGrid =>
                /\ Consistent(result)
                /\ \A rc \in Cells(n) : At(result, rc) \in 0 .. n

\* C6 witness: generate(4, 2) without a seed grid has returned.
C6_Witness ==
    pc = "done" /\ op = "generate" /\ seed = NoGrid /\ n = 4 /\ k = 2

\* C8: generate fails with IncompleteSeedGrid when the seed grid has an empty
\* cell, and with InvalidRemovalCount when k < 0 or k > n*n (the seed check
\* comes first when both apply); a failed call has made no search, removed
\* no cell and returned no grid.
C8_GenerateRejectsBeforeSearching ==
    (op = "generate" /\ pc # "call")
        => /\ (seed # NoGrid /\ ~Complete(seed)) => err = "IncompleteSeedGrid"
           /\ ((k < 0 \/ k > n * n) /\ (seed = NoGrid \/ Complete(seed)))
                => err = "InvalidRemovalCount"
           /\ err # "" =>
                /\ pc = "error" /\ searches = 0 /\ removed = 0
                /\ sudoku = NoGrid /\ result = "none"

\* C8 witness: generate has failed on k > n*n with a complete seed grid.
C8_Witness ==
    /\ op = "generate" /\ pc = "error" /\ err = "InvalidRemovalCount"
    /\ seed # NoGrid /\ k > n * n

\* C11: generate_unique(n, 0), called without a seed grid or with a complete
\* one, returns, having called generate exactly once and is_unique never,
\* and the grid it returns has no empty cell.
C11_ZeroRemovalsReturnsFirstAttempt ==
    (op = "generate_unique" /\ k = 0 /\ (seed = NoGrid \/ Complete(seed))
        /\ pc \in {"done", "error"})
        => /\ pc = "done"
           /\ generated = 1 /\ checks = 0
           /\ Complete(result)

----------------------------------------------------------------------------
(* Claims about construction, under SpecNew.                               *)

\* C12: construction with validation fails whenever a cell of the caller's
\* data lies outside 0 .. n: with ValueOutOfRange, or already in the
\* conversion to the cell type.
C12_OutOfRangeDataIsRejected ==
    (op = "Sudoku" /\ pc \in {"done", "error"}
        /\ \E rc \in Cells(n) : At(entry, rc) \notin 0 .. n)
        => (pc = "error" /\ err \in {"ValueOutOfRange", "OverflowError"})

----------------------------------------------------------------------------
(* Claims about the frames of solve_inplace, under Spec.                   *)

\* The cells the active invocations are working on
FrameCells == {stack[i].cell : i \in DOMAIN stack}

\* C13: whenever an invocation of solve_inplace, at any depth, has returned
\* failure, the grid is as it was when that invocation was entered: the cell
\* it had chosen is 0 again, and every cell but those the enclosing
\* invocations have placed a digit in has the value the outermost call was
\* entered with.
C13_FailureRestoresGrid ==
    (pc \in {"solve", "done"} /\ op \in {"solve_inplace", "has_solution"}
        /\ ret = "None")
        => \A rc \in Cells(n) :
              \/ rc \in FrameCells /\ At(entry, rc) = 0 /\ At(Receiver, rc) # 0
              \/ rc \notin FrameCells /\ At(Receiver, rc) = At(entry, rc)

\* C13 witness: an inner invocation has returned failure having made no
\* write but the reset: its cell had no candidate at all.
C13_Witness ==
    /\ pc = "solve" /\ ret = "None" /\ Len(stack) = 1 /\ writes = 2

\* C14 as claimed: whenever solve_inplace reports success, for any input
\* grid, the grid it returns has no empty cell and repeats no digit in any
\* row, column or box.
C14_SuccessIsValid ==
    (pc = "done" /\ op \in {"solve_inplace", "has_solution"} /\ Succeeded)
        => (Complete(Receiver) /\ Consistent(Receiver))

\* C14 amended: whenever solve_inplace reports success the grid it returns has
\* no empty cell, and if the filled cells of the input grid repeat no digit
\* in any row, column or box then every row, column and box of the returned
\* grid holds each digit exactly once.
C14_SuccessIsValidOnConsistentInput ==
    (pc = "done" /\ op \in {"solve_inplace", "has_solution"} /\ Succeeded)
        => /\ Complete(Receiver)
           /\ Consistent(entry) => (Consistent(Receiver) /\ EachDigitOnce(Receiver))

\* C14 witness: solve_inplace has succeeded on a consistent grid after
\* filling at least four cells, one of them more than once.
C14_Witness ==
    /\ pc = "done" /\ op = "solve_inplace" /\ Succeeded /\ Consistent(entry)
    /\ Cardinality(empty_cells(entry)) >= 4
    /\ writes > Cardinality(empty_cells(entry))

\* C15: in every state reached during solve_inplace, each cell that was
\* non-zero when the outermost call was entered holds its original value, so
\* a successful result agrees with the input on all its given cells.
C15_GivenCellsAreKept ==
    (pc \in {"solve", "done"} /\ op \in {"solve_inplace", "has_solution"})
        => \A rc \in Cells(n) :
              At(entry, rc) # 0 => At(Receiver, rc) = At(entry, rc)

\* C15 witness: the search is under way on a grid with given cells, with a
\* digit placed and an inner invocation that has failed.
C15_Witness ==
    /\ pc = "solve" /\ op = "solve_inplace" /\ ret = "None" /\ stack # <<>>
    /\ \E rc \in Cells(n) : At(entry, rc) # 0

----------------------------------------------------------------------------
(* Claims about generate under fair sampling, under SpecGenerate.          *)

\* C16: at the start of each removal step of generate (which it reaches only
\* with 0 <= k <= n*n) some cell that can be sampled is non-zero, and under
\* fair sampling a generate that has entered its removal loop returns.
C16_RemovalLoopTerminates ==
    /\ [](pc = "remove" /\ removed < k
            => /\ 0 <= k /\ k <= n * n
               /\ \E row \in Idx(n), col \in Idx(n) : sudoku[row][col] # 0)
    /\ ((pc = "remove") ~> (pc = "done" /\ removed = k))

\* C16 witness: generate has returned a 4 x 4 grid after four removal steps,
\* the later of which could draw cells already emptied.
C16_Witness ==
    pc = "done" /\ op = "generate" /\ n = 4 /\ k >= 4 /\ removed = k

----------------------------------------------------------------------------
(* Claims about the seed grid of generate, under SpecGen.                  *)

\* C17: when generate is given a complete seed grid, the caller's seed grid
\* is never modified, and the puzzle returned is the seed with exactly k
\* cells set to 0: every non-zero cell of it holds the seed's value.
C17_SeedIsKeptAndCarved ==
    (seed # NoGrid /\ Complete(entry))
        => /\ seed = entry
           /\ pc = "done" =>
                /\ \A rc \in Cells(n) :
                        At(result, rc) # 0 => At(result, rc) = At(entry, rc)
                /\ Cardinality({rc \in Cells(n) : At(result, rc) # At(entry, rc)}) = k

\* C17 witness: generate has returned a complete seed grid less four cells.
C17_Witness ==
    /\ pc = "done" /\ op = "generate" /\ seed # NoGrid /\ Complete(entry)
    /\ n = 4 /\ k = 4

----------------------------------------------------------------------------
(* Claims about the candidate sequences, under Spec.                       *)

\* The digits of 1 .. n that the row, the column and the box of (row, col)
\* all admit
SafeDigits(g, row, col) ==
    {d \in 1 .. Side(g) :
        row_safe(g, row, d) /\ col_safe(g, col, d) /\ box_safe(g, row, col, d)}

IsAscending(q) == \A i \in DOMAIN q, j \in DOMAIN q : i < j => q[i] < q[j]

IsPermutationOf(q, S) == Range(q) = S /\ Len(q) = Cardinality(S)

\* C18: on the grid as it is in any state, candidates(row, col) yields in
\* ascending order and without repetition exactly the digits of 1 .. n for
\* which row_safe, col_safe and box_safe all hold, the generator resumed in
\* is_unique yields the least such digit not yet passed, and every order
\* random_candidates may return, also the one a frame of solve_inplace has
\* just drawn, is a permutation of exactly that set.
C18_CandidatesAreTheSafeDigits ==
    /\ self # NoGrid =>
         /\ \A rc \in Cells(n) :
              LET q == candidates(self, rc[1], rc[2])
              IN  IsAscending(q) /\ IsPermutationOf(q, SafeDigits(self, rc[1], rc[2]))
         /\ \A rc \in empty_cells(self) : \A p \in random_candidates(self, rc[1], rc[2]) :
              IsPermutationOf(p, SafeDigits(self, rc[1], rc[2]))
    /\ pc = "unique_loop" =>
         LET S == {d \in SafeDigits(self, cell[1], cell[2]) : d >= digit}
             d == NextCandidate(self, cell[1], cell[2], digit)
         IN  IF S = {} THEN d = n + 1 ELSE d \in S /\ \A e \in S : d <= e
    /\ (pc = "solve" /\ stack # <<>> /\ Top.pc = "loop" /\ At(Receiver, Top.cell) = 0)
         => IsPermutationOf(Top.cands, SafeDigits(Receiver, Top.cell[1], Top.cell[2]))

\* C18 witness: a frame of solve_inplace has just drawn an order of two or
\* more candidates that is not the ascending one.
C18_Witness ==
    /\ pc = "solve" /\ stack # <<>> /\ Top.pc = "loop"
    /\ At(Receiver, Top.cell) = 0
    /\ Len(Top.cands) >= 2 /\ Top.cands[1] > Top.cands[2]

----------------------------------------------------------------------------
(* Claims about the early exit of is_unique, under Spec.                   *)

\* The top-level candidates is_unique has explored so far
Explored == {d \in SafeDigits(entry, cell[1], cell[2]) : d < digit}

\* Every solution below the top-level candidates of D
Below(D) == UNION {solve_all(Put(entry, cell, d)) : d \in D}

\* C19: is_unique examines the number of solutions only between top-level
\* candidates: the solutions recorded are always all the solutions below the
\* candidates explored so far, even when they are more than two; the loop
\* goes on to a next candidate only with at most one solution recorded, and
\* it has stopped with the first candidate that brought the count above one.
C19_EarlyExitBetweenTopLevelCandidates ==
    (op = "is_unique" /\ pc \in {"unique_loop", "done"} /\ cell # NoCell)
        => /\ solutions = Below(Explored)
           /\ pc = "unique_loop" => Cardinality(solutions) <= 1
           /\ \A d \in Explored :
                Cardinality(Below({e \in Explored : e < d})) <= 1
           /\ pc = "done" => (result <=> Cardinality(solutions) <= 1)

\* C19 witness: is_unique has answered false with more than two solutions
\* recorded, the subtree of its last candidate explored beyond the second
\* solution, and with a safe top-level candidate left unexplored.
C19_Witness ==
    /\ op = "is_unique" /\ pc = "done" /\ result = FALSE
    /\ Cardinality(solutions) >= 3
    /\ Explored # SafeDigits(entry, cell[1], cell[2])

----------------------------------------------------------------------------
(* Claims about the depth of solve_inplace, under SpecEmpty.               *)

\* C20 as claimed: the number of simultaneously active solve_inplace frames
\* never exceeds n*n.
C20_FramesAtMostNSquared ==
    Len(stack) <= n * n

\* C20 amended: the number of simultaneously active solve_inplace frames
\* never exceeds the number of cells empty on entry plus one, hence n*n + 1:
\* the frames that have chosen a cell have chosen distinct cells that were
\* empty on entry, and only the innermost frame may be one that has not
\* chosen a cell.
C20_FramesAtMostEmptyCellsPlusOne ==
    /\ Len(stack) <= Cardinality(empty_cells(entry)) + 1
    /\ Len(stack) <= n * n + 1
    /\ \A i \in DOMAIN stack :
          IF stack[i].cell = NoCell
          THEN i = Len(stack)
          ELSE /\ stack[i].cell \in empty_cells(entry)
               /\ \A j \in DOMAIN stack : stack[j].cell = stack[i].cell => j = i

\* C20 witness: on the empty 4 x 4 grid, sixteen frames hold a cell each and
\* a seventeenth is about to find the grid complete.
C20_Witness ==
    n = 4 /\ Len(stack) = n * n + 1 /\ Complete(Receiver)

====
